---- MODULE Spec2Model ----
(***************************************************************************)
(* Validation / execution / preview pipeline of the Text-to-SQL backend.   *)
(*                                                                         *)
(* A SQL text is a sequence of lexical tokens.  A token is an atomic run   *)
(* of characters: a keyword or identifier (word characters only), a        *)
(* whitespace character, a semicolon, a comment delimiter, or a piece of   *)
(* punctuation.  Two adjacent word tokens form one longer word, so the     *)
(* regular expressions' \b is decided by the neighbouring tokens, \s by    *)
(* the whitespace tokens, and re.IGNORECASE by Upper.                      *)
(***************************************************************************)
EXTENDS Naturals, Sequences, FiniteSets, TLC

\* ------------------------------------------------------------------ bounds

\* Longest enumerated request text, in tokens.
MaxLen == 3

\* ------------------------------------------------------------------ tokens
WhiteSpace == {" ", "\n"}

NonWordTokens == WhiteSpace \cup {";", "--", "/*", "*/", "*", "(", ")", "="}

IsSpace(t) == t \in WhiteSpace

IsWord(t) == t \notin NonWordTokens

\* re.IGNORECASE: the upper-case form of a token.
Upper(t) ==
    CASE t = "select" -> "SELECT"
      [] t = "delete" -> "DELETE"
      [] t = "Delete" -> "DELETE"
      [] t = "update" -> "UPDATE"
      [] t = "from"   -> "FROM"
      [] t = "where"  -> "WHERE"
      [] t = "drop"   -> "DROP"
      [] t = "limit"  -> "LIMIT"
      [] t = "union"  -> "UNION"
      [] t = "truncate" -> "TRUNCATE"
      [] t = "database" -> "DATABASE"
      [] OTHER        -> t

Min(a, b) == IF a <= b THEN a ELSE b

\* s[i..j], empty when j < i.
Slice(s, i, j) == IF j < i THEN << >> ELSE SubSeq(s, i, j)

\* \b before position i / after position i of s (s[i] is a word token).
BoundaryBefore(s, i) == i = 1 \/ ~IsWord(s[i - 1])

BoundaryAfter(s, i) == i = Len(s) \/ ~IsWord(s[i + 1])

\* Positions where the keyword kw occurs as a substring, in any case.
Occurs(s, kw) == {i \in 1..Len(s) : Upper(s[i]) = kw}

\* re.search(r"\bkw\b", s, re.IGNORECASE)
HasWord(s, kw) ==
    \E i \in Occurs(s, kw) : BoundaryBefore(s, i) /\ BoundaryAfter(s, i)

\* Number of leading whitespace tokens of s.
RECURSIVE LeadingSpace(_)
LeadingSpace(s) ==
    IF s # << >> /\ IsSpace(Head(s)) THEN 1 + LeadingSpace(Tail(s)) ELSE 0

\* re.search(r"^\s*kw\b", s, re.IGNORECASE)
StartsWith(s, kw) ==
    LET i == LeadingSpace(s) + 1
    IN  i <= Len(s) /\ Upper(s[i]) = kw /\ BoundaryAfter(s, i)

\* str.strip() / str.rstrip(';')
RECURSIVE LStrip(_)
LStrip(s) == IF s # << >> /\ IsSpace(Head(s)) THEN LStrip(Tail(s)) ELSE s

RECURSIVE RStrip(_)
RStrip(s) ==
    IF s # << >> /\ IsSpace(s[Len(s)]) THEN RStrip(Slice(s, 1, Len(s) - 1)) ELSE s

Strip(s) == LStrip(RStrip(s))

RECURSIVE RStripSemicolon(_)
RStripSemicolon(s) ==
    IF s # << >> /\ s[Len(s)] = ";"
    THEN RStripSemicolon(Slice(s, 1, Len(s) - 1))
    ELSE s

\* ---------------------------------------------------------------- comments

\* re.sub(r"--.*?$", "", q, flags=re.MULTILINE): a line comment runs from
\* "--" up to, not including, the next line break.
RECURSIVE SkipLine(_)
SkipLine(s) == IF s = << >> \/ Head(s) = "\n" THEN s ELSE SkipLine(Tail(s))

RECURSIVE StripLineComments(_)
StripLineComments(s) ==
    IF s = << >> THEN << >>
    ELSE IF Head(s) = "--" THEN StripLineComments(SkipLine(Tail(s)))
    ELSE << Head(s) >> \o StripLineComments(Tail(s))

\* re.sub(r"/\*.*?\*/", "", q, flags=re.DOTALL): a block comment runs from
\* "/*" to the first "*/" after it; an unclosed "/*" stays.
RECURSIVE StripBlockComments(_)
StripBlockComments(s) ==
    IF s = << >> THEN << >>
    ELSE LET closers == {j \in 2..Len(s) : s[j] = "*/"}
         IN  IF Head(s) = "/*" /\ closers # {}
             THEN LET j == CHOOSE k \in closers : \A m \in closers : k <= m
                  IN  StripBlockComments(Slice(s, j + 1, Len(s)))
             ELSE << Head(s) >> \o StripBlockComments(Tail(s))

\* The two substitutions every SQLSecurityValidator method starts with.
query_clean(query) == StripBlockComments(StripLineComments(query))

\* ------------------------------------------------- SQLSecurityValidator
NoneVal == "None"

MsgDropDatabase == "DROP DATABASE is not allowed"

MsgTruncate == "TRUNCATE is not allowed"

MsgMultiple == "Multiple statements not allowed"

MsgDeleteWhere == "DELETE statements must include a WHERE clause"

MsgUnknownType == "Could not determine query type"

\* The alternation of the third dangerous pattern.
StatementKeywords ==
    {"SELECT", "INSERT", "UPDATE", "DELETE", "DROP", "ALTER", "TRUNCATE"}

\* re.search(r"\bdrop\s+database\b", s, re.IGNORECASE)
MatchesDropDatabase(s) ==
    \E i \in Occurs(s, "DROP") :
        LET k == LeadingSpace(Slice(s, i + 1, Len(s)))
            j == i + k + 1
        IN  /\ BoundaryBefore(s, i)
            /\ k >= 1
            /\ j <= Len(s)
            /\ Upper(s[j]) = "DATABASE"
            /\ BoundaryAfter(s, j)

\* re.search(r";.*?(?:select|insert|update|delete|drop|alter|truncate)", s,
\* re.IGNORECASE): without re.DOTALL the dot does not cross a line break.
MatchesMultiple(s) ==
    \E i \in 1..Len(s) : \E j \in (i + 1)..Len(s) :
        /\ s[i] = ";"
        /\ Upper(s[j]) \in StatementKeywords
        /\ \A m \in (i + 1)..(j - 1) : s[m] # "\n"

\* DANGEROUS_PATTERNS, in order: the first that matches gives the message.
DangerousMessage(s) ==
    IF MatchesDropDatabase(s) THEN MsgDropDatabase
    ELSE IF HasWord(s, "TRUNCATE") THEN MsgTruncate
    ELSE IF MatchesMultiple(s) THEN MsgMultiple
    ELSE NoneVal

validate_query(query) ==
    LET msg == DangerousMessage(query_clean(query))
    IN  [ok |-> msg = NoneVal, error |-> msg]

\* Mutant: WHERE is looked for in the raw text, comments included.
require_where_for_delete_raw(query) ==
    LET clean == query_clean(query)
    IN  IF StartsWith(clean, "DELETE") /\ ~HasWord(query, "WHERE")
        THEN [ok |-> FALSE, error |-> MsgDeleteWhere]
        ELSE [ok |-> TRUE, error |-> NoneVal]

require_where_for_delete(query) ==
    LET clean == query_clean(query)
    IN  IF StartsWith(clean, "DELETE") /\ ~HasWord(clean, "WHERE")
        THEN [ok |-> FALSE, error |-> MsgDeleteWhere]
        ELSE [ok |-> TRUE, error |-> NoneVal]

\* QUERY_PATTERNS, in the dictionary's order.
get_query_type(query) ==
    LET clean == query_clean(query)
    IN  IF StartsWith(clean, "SELECT") THEN "SELECT"
        ELSE IF StartsWith(clean, "INSERT") THEN "INSERT"
        ELSE IF StartsWith(clean, "UPDATE") THEN "UPDATE"
        ELSE IF StartsWith(clean, "DELETE") THEN "DELETE"
        ELSE IF StartsWith(clean, "ALTER") THEN "ALTER"
        ELSE NoneVal

\* re.search(r"\b(union|intersect|except)\b", s, re.IGNORECASE)
HasCompound(s) ==
    HasWord(s, "UNION") \/ HasWord(s, "INTERSECT") \/ HasWord(s, "EXCEPT")

\* The default of inject_limit_to_select's limit parameter.
DefaultLimit == 100

\* f" LIMIT {limit}"
LimitClause(limit) == << " ", "LIMIT", " ", ToString(limit) >>

\* The clean text decides, the raw text is rewritten.
inject_limit_to_select(query, limit) ==
    LET clean == query_clean(query)
    IN  IF StartsWith(clean, "SELECT") /\ ~HasWord(clean, "LIMIT")
        THEN IF HasCompound(clean)
             THEN << "(" >> \o query \o << ")" >> \o LimitClause(limit)
             ELSE RStripSemicolon(query) \o LimitClause(limit)
        ELSE query

\* ------------------------------------------------------- QueryValidator

\* Mutant: the DELETE-requires-WHERE check is left out.
validate_generated_query_without_where(query) ==
    IF ~validate_query(query).ok
    THEN [valid |-> FALSE, error |-> validate_query(query).error,
          query_type |-> NoneVal]
    ELSE IF get_query_type(query) = NoneVal
    THEN [valid |-> FALSE, error |-> MsgUnknownType, query_type |-> NoneVal]
    ELSE [valid |-> TRUE, error |-> NoneVal,
          query_type |-> get_query_type(query)]

\* The tuple (is_valid, error_message, query_type).  The text that
\* inject_limit_to_select builds is bound to a local name and not returned.
validate_generated_query(query) ==
    IF ~validate_query(query).ok
    THEN [valid |-> FALSE, error |-> validate_query(query).error,
          query_type |-> NoneVal]
    ELSE IF ~require_where_for_delete(query).ok
    THEN [valid |-> FALSE, error |-> require_where_for_delete(query).error,
          query_type |-> NoneVal]
    ELSE IF get_query_type(query) = NoneVal
    THEN [valid |-> FALSE, error |-> MsgUnknownType, query_type |-> NoneVal]
    ELSE [valid |-> TRUE, error |-> NoneVal,
          query_type |-> get_query_type(query)]

\* The local name query of validate_generated_query when it returns: for
\* an accepted SELECT the text inject_limit_to_select built.
rewritten_query(query) ==
    IF validate_generated_query(query).query_type = "SELECT"
    THEN inject_limit_to_select(query, DefaultLimit)
    ELSE query

validate_preview_query(query) ==
    [valid |-> validate_query(query).ok, error |-> validate_query(query).error]

\* --------------------------------------- TransactionManager: conversions
SelectStar == << "SELECT", " ", "*" >>

\* re.sub(r"^DELETE\s+FROM\b", "SELECT * FROM", query, flags=re.IGNORECASE):
\* the pattern is anchored at the first character of the raw text.
convert_delete_to_select(query) ==
    LET k == LeadingSpace(Slice(query, 2, Len(query)))
        j == k + 2
    IN  IF /\ query # << >>
           /\ Upper(query[1]) = "DELETE"
           /\ k >= 1
           /\ j <= Len(query)
           /\ Upper(query[j]) = "FROM"
           /\ BoundaryAfter(query, j)
        THEN SelectStar \o << " ", "FROM" >> \o Slice(query, j + 1, Len(query))
        ELSE query

\* A WHERE at position w that r"WHERE\s+(.+?)" can match: whitespace after
\* it and at least one more character after that whitespace character.
WhereMatchAt(s, w) ==
    /\ Upper(s[w]) = "WHERE"
    /\ w + 2 <= Len(s)
    /\ IsSpace(s[w + 1])

\* The remainders r"(?:;)?$" matches: "$" is the end of the text or the
\* place before a line break that ends the text.
EndTails == {<< >>, << ";" >>, << "\n" >>, << ";", "\n" >>}

NoMatch == [matched |-> FALSE, table |-> << >>, where |-> << >>]

\* re.match(r"UPDATE\s+([^\s]+).*?WHERE\s+(.+?)(?:;)?$", query,
\* re.IGNORECASE | re.DOTALL): whether it matches, and the groups.
\* a..b is the run of non-whitespace after UPDATE\s+; group 1 is its longest
\* prefix that leaves a matching WHERE behind it, and the lazy .*? then stops
\* at the first such WHERE.
UpdateMatch(query) ==
    LET n == Len(query)
        k == LeadingSpace(Slice(query, 2, n))
        a == k + 2
    IN  IF ~(n >= 1 /\ Upper(query[1]) = "UPDATE" /\ k >= 1 /\ a <= n)
        THEN NoMatch
        ELSE
        LET b == CHOOSE e \in a..n :
                    /\ \A m \in a..e : ~IsSpace(query[m])
                    /\ (e = n \/ IsSpace(query[e + 1]))
            ends == {g \in a..b : \E w \in (g + 1)..n : WhereMatchAt(query, w)}
        IN  IF ends = {} THEN NoMatch
            ELSE
            LET g == CHOOSE x \in ends : \A y \in ends : y <= x
                ws == {w \in (g + 1)..n : WhereMatchAt(query, w)}
                w == CHOOSE x \in ws : \A y \in ws : x <= y
                e == w + LeadingSpace(Slice(query, w + 1, n))
                from == IF e < n THEN e + 1 ELSE e
                stops == {h \in from..n : Slice(query, h + 1, n) \in EndTails}
                h == CHOOSE x \in stops : \A y \in stops : x <= y
            IN  [matched |-> TRUE, table |-> Slice(query, a, g),
                 where |-> Slice(query, from, h)]

\* re.sub(r"^UPDATE\b", "SELECT *", query, flags=re.IGNORECASE)
ReplaceLeadingUpdate(query) ==
    IF query # << >> /\ Upper(query[1]) = "UPDATE" /\ BoundaryAfter(query, 1)
    THEN SelectStar \o Tail(query)
    ELSE query

\* Where a match of r"SET\s+.*?\s+WHERE" that starts at position 1 of s
\* ends (0: no match there).  The first \s+ is greedy and the .*? lazy.
SetWhereEnd(s) ==
    LET n == Len(s)
        k == LeadingSpace(Slice(s, 2, n))
        e == k + 1
        far == {w \in (e + 2)..n : IsSpace(s[w - 1]) /\ Upper(s[w]) = "WHERE"}
    IN  IF ~(n >= 1 /\ Upper(s[1]) = "SET" /\ k >= 1) THEN 0
        ELSE IF far # {} THEN CHOOSE x \in far : \A y \in far : x <= y
        ELSE IF k >= 2 /\ e + 1 <= n /\ Upper(s[e + 1]) = "WHERE" THEN e + 1
        ELSE 0

\* re.sub(r"SET\s+.*?\s+WHERE", " WHERE", s, flags=re.IGNORECASE | re.DOTALL)
RECURSIVE ReplaceSetWhere(_)
ReplaceSetWhere(s) ==
    IF s = << >> THEN << >>
    ELSE IF SetWhereEnd(s) > 0
    THEN << " ", "WHERE" >> \o ReplaceSetWhere(Slice(s, SetWhereEnd(s) + 1, Len(s)))
    ELSE << Head(s) >> \o ReplaceSetWhere(Tail(s))

convert_update_to_select(query) ==
    LET match == UpdateMatch(query)
    IN  IF match.matched
        THEN SelectStar \o << " ", "FROM", " " >> \o Strip(match.table)
                 \o << " ", "WHERE", " " >> \o Strip(match.where)
        ELSE ReplaceSetWhere(ReplaceLeadingUpdate(query))

\* ------------------------------------------------------- PreviewService

\* re.search(r"LIMIT\b", query, re.IGNORECASE), on the raw text: nothing is
\* required before the keyword.
HasLimitSuffix(query) ==
    \E i \in Occurs(query, "LIMIT") : BoundaryAfter(query, i)

\* The text preview_with_limit hands to QueryExecutor.preview_query.
limited_query(query, limit) ==
    IF HasLimitSuffix(query) THEN query
    ELSE IF HasCompound(query)
    THEN << "(" >> \o query \o << ")" >> \o LimitClause(limit)
    ELSE RStripSemicolon(query) \o LimitClause(limit)

\* ---------------------------------------------------------- DiffService

\* A row is a dictionary: its (column, value) items in insertion order, no
\* column twice.

\* The order sorted() puts the column names in.
ColumnRank(column) == IF column = "id" THEN 1 ELSE 2

\* Mutant: tuple(row.items()), the items in insertion order.
UnsortedItems(items) == items

\* tuple(sorted(row.items())): the columns differ, so they decide the order.
RECURSIVE SortedItems(_)
SortedItems(items) ==
    IF items = << >> THEN << >>
    ELSE LET m == CHOOSE i \in 1..Len(items) : \A j \in 1..Len(items) :
                      ColumnRank(items[i][1]) <= ColumnRank(items[j][1])
         IN  << items[m] >>
                 \o SortedItems(Slice(items, 1, m - 1)
                                    \o Slice(items, m + 1, Len(items)))

\* {tuple(sorted(row.items())) for row in rows}
RowTuples(rows) == {SortedItems(rows[i]) : i \in 1..Len(rows)}

\* added[:10] / removed[:10]
DiffSampleCap == 10

\* list(a_set)[:10]: the order a set is iterated in is not determined, so
\* the slice may hold any DiffSampleCap of its members, or all of them when
\* there are no more.  dict(row) keeps the sorted order of the items.
Slices(tuples) ==
    {sample \in SUBSET tuples :
        Cardinality(sample) = Min(Cardinality(tuples), DiffSampleCap)}

\* Mutant: removed is built from the list before_rows, [row for row in
\* before_rows if its tuple is not in after_set], so a row that occurs twice
\* is counted twice.
diff_counts_removed_from_list(before, after) ==
    LET before_set == RowTuples(before)
        after_set == RowTuples(after)
        removed_list == {i \in 1..Len(before) :
                            SortedItems(before[i]) \notin after_set}
    IN  [rows_added |-> Cardinality(after_set \ before_set),
         rows_removed |-> Cardinality(removed_list),
         rows_unchanged |-> Cardinality(before_set \cap after_set)]

\* len(added), len(removed) and len(before_set & after_set)
diff_counts(before, after) ==
    LET before_set == RowTuples(before)
        after_set == RowTuples(after)
    IN  [rows_added |-> Cardinality(after_set \ before_set),
         rows_removed |-> Cardinality(before_set \ after_set),
         rows_unchanged |-> Cardinality(before_set \cap after_set)]

\* The dictionaries calculate_row_diff may return; added_rows and
\* removed_rows are held as the sets of their rows.
calculate_row_diff(before, after) ==
    LET before_set == RowTuples(before)
        after_set == RowTuples(after)
        added == after_set \ before_set
        removed == before_set \ after_set
        counts == diff_counts(before, after)
    IN  {[rows_added |-> counts.rows_added,
          rows_removed |-> counts.rows_removed,
          rows_unchanged |-> counts.rows_unchanged,
          added_rows |-> sample_added,
          removed_rows |-> sample_removed] :
            sample_added \in Slices(added), sample_removed \in Slices(removed)}

NoDiff ==
    [rows_added |-> 0, rows_removed |-> 0, rows_unchanged |-> 0,
     added_rows |-> {}, removed_rows |-> {}]

\* row.keys()
Columns(row) == {row[i][1] : i \in 1..Len(row)}

\* row.get(column), for a column the row has
ValueOf(row, column) ==
    row[CHOOSE i \in 1..Len(row) : row[i][1] = column][2]

\* [row.get(column) for row in rows if column in row]
RECURSIVE ColumnValues(_, _)
ColumnValues(rows, column) ==
    IF rows = << >> THEN << >>
    ELSE (IF column \in Columns(Head(rows))
          THEN << ValueOf(Head(rows), column) >> ELSE << >>)
             \o ColumnValues(Tail(rows), column)

\* before_values[:5] / after_values[:5]
ColumnSampleCap == 5

\* all_columns: the columns of the rows of both lists
AllColumns(before, after) ==
    UNION {Columns((before \o after)[i]) : i \in 1..(Len(before) + Len(after))}

\* The dictionary compare_column_changes returns: an entry for every column
\* whose two value lists differ, none at all when either list is empty.
compare_column_changes(before, after) ==
    IF before = << >> \/ after = << >> THEN << >>
    ELSE LET changed == {column \in AllColumns(before, after) :
                            ColumnValues(before, column)
                                # ColumnValues(after, column)}
         IN  [column \in changed |->
                 [before |-> Slice(ColumnValues(before, column), 1,
                                   Min(Len(ColumnValues(before, column)),
                                       ColumnSampleCap)),
                  after |-> Slice(ColumnValues(after, column), 1,
                                  Min(Len(ColumnValues(after, column)),
                                      ColumnSampleCap)),
                  changed |-> TRUE]]

\* ------------------------------------------------------------- requests

\* Largest id of the rows handed to calculate_row_diff.
MaxId == 11

\* How the rows of a list are written: both columns in either order, or
\* the id alone.
Shapes == {"id_name", "name_id", "id"}

\* The row with the given id.
Row(id, shape) ==
    IF shape = "id_name" THEN << << "id", id >>, << "name", "a" >> >>
    ELSE IF shape = "name_id" THEN << << "name", "a" >>, << "id", id >> >>
    ELSE << << "id", id >> >>

\* The rows lo..hi in order; `again`: the first of them once more at the end.
RowList(lo, hi, shape, again) ==
    LET rows == [i \in 1..(IF hi < lo THEN 0 ELSE hi - lo + 1) |->
                    Row(lo + i - 1, shape)]
    IN  IF again /\ rows # << >> THEN Append(rows, Head(rows)) ELSE rows

\* The row lists handed to calculate_row_diff: short ones, and ones with
\* more rows than a sample shows.
RowLists ==
    {RowList(lo, hi, shape, again) :
        lo \in 1..2, hi \in (0..2) \cup ((MaxId - 1)..MaxId),
        shape \in Shapes, again \in BOOLEAN}


\* Adjacent tokens whose characters would run together into a different
\* comment delimiter ("/*" "/*" reads "/*/*", which holds "*/"): a text is
\* written with the tokens it is read with.
AmbiguousPairs ==
    {<< "/*", "/*" >>, << "*", "/*" >>, << "*/", "*/" >>, << "*/", "*" >>}

WellFormed(s) ==
    \A i \in 1..(Len(s) - 1) : << s[i], s[i + 1] >> \notin AmbiguousPairs

\* Tokens of the enumerated request texts.
Alphabet ==
    {" ", "\n", ";", "--", "/*", "*/", "users", "SELECT", "DELETE", "UPDATE",
     "WHERE", "FROM", "DROP"}

\* Longer request texts: the statements of tests/test_query_validator.py,
\* and variants of them in layout, letter case and comments.
Samples ==
    {<< "SELECT", " ", "*", " ", "FROM", " ", "users" >>,
     << "SELECT", " ", "*", " ", "FROM", " ", "users", ";", " ",
        "DELETE", " ", "FROM", " ", "users" >>,
     << "SELECT", " ", "1", ";", "\n", "DROP", " ", "TABLE", " ", "users" >>,
     << "DELETE", " ", "FROM", " ", "users" >>,
     << "DELETE", " ", "FROM", " ", "users", " ", "WHERE", " ",
        "id", "=", "1" >>,
     << " ", "DELETE", " ", "FROM", " ", "users", " ", "WHERE", " ",
        "id", "=", "1" >>,
     << "delete", " ", "from", " ", "users", " ", "where", " ",
        "id", "=", "1" >>,
     << "DELETE", " ", "FROM", " ", "users", " ", "WHERE", " ",
        "id", "=", "1", ";", " ", "DROP", " ", "TABLE", " ", "users" >>,
     << "/*", "x", "*/", "DELETE", " ", "FROM", " ", "users", " ", "WHERE",
        " ", "id", "=", "1" >>,
     << "UPDATE", " ", "users", " ", "SET", " ", "name", "=", "1", " ",
        "WHERE", " ", "id", "=", "1" >>,
     << "\n", "UPDATE", " ", "users", " ", "SET", " ", "name", "=", "1", " ",
        "WHERE", " ", "id", "=", "1" >>,
     << "UPDATE", " ", "users", " ", "SET", " ", "name", "=", "1", " ",
        "WHERE", " ", "id", "=", "1", ";" >>,
     << "update", " ", "users", "\n", "SET", " ", "no", "where", " ", "=",
        " ", "1", " ", "WHERE", " ", "id", "=", "2" >>,
     << "INSERT", " ", "INTO", " ", "users", " ", "VALUES", " ", "(", "1",
        ")" >>,
     << "TRUNCATE", " ", "TABLE", " ", "users" >>,
     << "DROP", " ", "DATABASE", " ", "postgres" >>,
     << "SELECT", " ", "*", " ", "FROM", " ", "users", " ", "LIMIT", " ",
        "50" >>,
     << "SELECT", " ", "*", " ", "FROM", " ", "users", " ", "--", " ",
        "LIMIT", " ", "5" >>,
     << "SELECT", " ", "1", " ", "UNION", " ", "SELECT", " ", "2" >>}

SeqsUpTo(S, n) == UNION {[1..k -> S] : k \in 0..n}

Texts == {s \in SeqsUpTo(Alphabet, MaxLen) : WellFormed(s)} \cup Samples

\* Tokens of the texts the validator is called with directly: the keywords
\* of its patterns, in upper and lower case.
ValidatorAlphabet ==
    {" ", "\n", ";", "--", "/*", "*/", "users", "SELECT", "select", "INSERT",
     "UPDATE", "DELETE", "ALTER", "WHERE", "DROP", "DATABASE", "truncate",
     "LIMIT", "UNION"}

\* Longer texts of direct calls: statements of tests/test_query_validator.py
\* and variants with a trailing semicolon, a compound operator, a comment.
ValidatorSamples ==
    {<< "SELECT", " ", "*", " ", "FROM", " ", "users" >>,
     << "SELECT", " ", "*", " ", "FROM", " ", "users", ";" >>,
     << "SELECT", " ", "*", " ", "FROM", " ", "users", " ", "LIMIT", " ",
        "50" >>,
     << "SELECT", " ", "1", " ", "UNION", " ", "SELECT", " ", "2" >>,
     << "SELECT", " ", "1", " ", "UNION", " ", "SELECT", " ", "2", ";" >>,
     << "SELECT", " ", "*", " ", "FROM", " ", "users", " ", "--", " ",
        "LIMIT", " ", "5" >>,
     << "TRUNCATE", " ", "TABLE", " ", "users" >>,
     << "truncate", " ", "users", ";", " ", "drop", " ", "database", " ",
        "postgres" >>,
     << "/*", "x", "*/", "DROP", "\n", "DATABASE", " ", "postgres" >>,
     << "/*", " ", "--", " ", "*/", " ", "TRUNCATE", " ", "TABLE", " ",
        "users" >>,
     << "/*", " ", "--", " ", "*/", " ", "DROP", " ", "TABLE", " ", "users",
        ";", " ", "/*", "\n", "*/", " ", "SELECT", " ", "1" >>,
     << "DROP", " ", "DATABASE", " ", "postgres" >>}

ValidatorTexts ==
    {s \in SeqsUpTo(ValidatorAlphabet, MaxLen) : WellFormed(s)}
        \cup ValidatorSamples \cup Samples

\* Row caps a preview request may carry: the defaults of preview_with_limit
\* and of PreviewRequest.limit.
Limits == {10, 100}

\* str(e) of an exception the database session raised.
DBError == "DBError"

\* ---------------------------------------------------------------- state

VARIABLES
    pc,             \* where the request is; "done": a result was returned,
                    \* "raised": an exception left the public operation,
                    \* "cancelled": a CancelledError did
    request,        \* the route called and its arguments
    query,          \* the query argument of QueryExecutor.execute_query
                    \* or QueryExecutor.preview_query
    query_type,     \* the local query_type
    preview_query,  \* the local preview_query of QueryExecutor.preview_query
    log,            \* the calls made on the session and its results
    pending,        \* statements applied in the session's open transaction
    committed,      \* statements made durable
    result,         \* the dictionary returned
    validator_query,\* the local query of validate_generated_query when it
                    \* returns
    preview_rows,   \* len(preview_data) of QueryExecutor.preview_query
    before_rows,    \* the arguments of DiffService.calculate_row_diff
    after_rows,
    diff,           \* the dictionary calculate_row_diff returns
    changes,        \* the dictionary compare_column_changes returns
    affected_rows,  \* the local affected_rows of QueryExecutor.preview_query
    table_rows,     \* the rows the statement of a preview finds in the
                    \* database, as committed there
    session,        \* the session get_session gave the request (0: none)
    created,        \* the sessions async_session_maker has created
    closes,         \* the calls of session.close() on the request's session
    batch,          \* execute_batch: the requests still to run
    results,        \* execute_batch: the list results
    waiting         \* the request that is suspended at an await while
                    \* this one runs

vars ==
    << pc, request, query, query_type, preview_query, log, pending,
       committed, result, validator_query, preview_rows, before_rows,
       after_rows, diff, changes, affected_rows, table_rows, session,
       created, closes, batch, results, waiting >>

diff_vars == << before_rows, after_rows, diff, changes >>

route_vars == << session, created, closes, batch, results, waiting >>

count_vars == << affected_rows, table_rows >>

\* No second request.
NoContext == [pc |-> "none"]

NoRequest == [op |-> "none", sql |-> << >>, limit |-> 0]

NoResult == [success |-> FALSE, error |-> NoneVal, query_type |-> NoneVal]

Init ==
    /\ pc = "idle"
    /\ request = NoRequest
    /\ query = << >>
    /\ query_type = NoneVal
    /\ preview_query = << >>
    /\ log = << >>
    /\ pending = << >>
    /\ committed = << >>
    /\ result = NoResult
    /\ validator_query = << >>
    /\ preview_rows = 0
    /\ before_rows = << >>
    /\ after_rows = << >>
    /\ diff = NoDiff
    /\ changes = << >>
    /\ affected_rows = 0
    /\ table_rows = 0
    /\ session = 0
    /\ created = 0
    /\ closes = 0
    /\ batch = << >>
    /\ results = << >>
    /\ waiting = NoContext

\* -------------------------------------------------------------- session

\* rows[:100] in QueryExecutor.preview_query
PreviewCap == 100

\* How many rows a statement finds in the database.
RowCounts == {50, 150}

\* The numbers a LIMIT clause of a request text is written with.
Numbers == {1, 10, 50, 100}

\* The text ends in the clause LIMIT k.
EndsWithLimit(text, k) ==
    LET n == Len(text)
    IN  /\ n >= 3
        /\ text[n] = ToString(k)
        /\ IsSpace(text[n - 1])
        /\ Upper(text[n - 2]) = "LIMIT"
        /\ BoundaryBefore(text, n - 2)

\* len(result.fetchall()) when the statement finds `rows` rows: a LIMIT
\* clause at the end of the statement caps the rows the database returns.
Fetched(text, rows) ==
    IF \E k \in Numbers : EndsWithLimit(text, k)
    THEN Min(rows, CHOOSE k \in Numbers : EndsWithLimit(text, k))
    ELSE rows

FetchedRows(text) == {Fetched(text, rows) : rows \in RowCounts}

\* One entry of the log: the call, the text it was given (execute only)
\* and how it ended.
Call(name, text, outcome) ==
    [call |-> name, text |-> text, outcome |-> outcome]

Ended(ok) == IF ok THEN "ok" ELSE "raise"

\* How an awaited session call may end: it returns, it raises an Exception,
\* or the task is cancelled while it waits (a deadline set around the
\* request: asyncio raises CancelledError, a BaseException, at the await).
AwaitOutcomes == {"ok", "raise", "cancel"}

\* A statement that raises may already have changed rows when it fails
\* ("raise_partial"); those changes belong to the open transaction until it
\* is rolled back.  So do those of a statement cut short by a cancellation.
ExecuteOutcomes == AwaitOutcomes \cup {"raise_partial"}

\* A statement that fails leaves the session's transaction failed: until a
\* rollback (or a commit, which ends the transaction too) the database
\* refuses every further statement on that session.
Aborted ==
    \E i \in 1..Len(log) :
        /\ log[i].call = "execute"
        /\ log[i].outcome \in {"raise", "raise_partial"}
        /\ \A j \in (i + 1)..Len(log) :
               ~(log[j].call \in {"commit", "rollback"}
                    /\ log[j].outcome = "ok")

\* How await session.execute may end on the session as it is.
SessionExecuteOutcomes ==
    IF Aborted THEN {"raise", "cancel"} ELSE ExecuteOutcomes

Applied(text, outcome) == [text |-> text, complete |-> outcome = "ok"]

\* await session.execute(text(...))
SessionExecute(text, outcome) ==
    /\ log' = Append(log, Call("execute", text, outcome))
    /\ pending' = IF outcome = "raise" THEN pending
                  ELSE Append(pending, Applied(text, outcome))
    /\ UNCHANGED committed

\* result.fetchall()
ResultFetchall(ok) ==
    /\ log' = Append(log, Call("fetchall", << >>, Ended(ok)))
    /\ UNCHANGED << pending, committed >>

\* await session.commit()
SessionCommit(outcome) ==
    /\ log' = Append(log, Call("commit", << >>, outcome))
    /\ committed' = IF outcome = "ok" THEN committed \o pending ELSE committed
    /\ pending' = IF outcome = "ok" THEN << >> ELSE pending

\* await session.rollback()
SessionRollback(outcome) ==
    /\ log' = Append(log, Call("rollback", << >>, outcome))
    /\ pending' = IF outcome = "ok" THEN << >> ELSE pending
    /\ UNCHANGED committed

\* An exception no handler of the pipeline catches leaves the operation:
\* "raised" for an Exception, "cancelled" for a CancelledError, which no
\* `except Exception` clause catches.
Escape(how) ==
    /\ pc' = how
    /\ UNCHANGED result

Return(success, error, type) ==
    /\ result' = [success |-> success, error |-> error, query_type |-> type]
    /\ pc' = "done"

\* --------------------------------------------------------------- routes

\* POST /api/v1/execute/query: QueryExecutor.execute_query(session, sql)
ExecuteRoute ==
    /\ pc = "idle"
    /\ \E sql \in Texts :
        /\ request' = [op |-> "execute", sql |-> sql, limit |-> 0]
        /\ query' = sql
    /\ pc' = "execute_query"
    /\ UNCHANGED << query_type, preview_query, log, pending, committed,
                    result >>
    /\ UNCHANGED << validator_query, preview_rows >>
    /\ UNCHANGED diff_vars
    /\ UNCHANGED route_vars
    /\ UNCHANGED count_vars

\* POST /api/v1/preview/simulate: PreviewService.preview_query hands sql
\* to QueryExecutor.preview_query as it is.
SimulateRoute ==
    /\ pc = "idle"
    /\ \E sql \in Texts :
        /\ request' = [op |-> "simulate", sql |-> sql, limit |-> 0]
        /\ query' = sql
    /\ pc' = "preview_query"
    /\ UNCHANGED << query_type, preview_query, log, pending, committed,
                    result >>
    /\ UNCHANGED << validator_query, preview_rows >>
    /\ UNCHANGED diff_vars
    /\ UNCHANGED route_vars
    /\ UNCHANGED count_vars

\* POST /api/v1/preview/execute: PreviewService.preview_with_limit adds its
\* LIMIT clause and hands the text to QueryExecutor.preview_query.
PreviewRoute ==
    /\ pc = "idle"
    /\ \E sql \in Texts : \E limit \in Limits :
        /\ request' = [op |-> "preview", sql |-> sql, limit |-> limit]
        /\ query' = limited_query(sql, limit)
    /\ pc' = "preview_query"
    /\ UNCHANGED << query_type, preview_query, log, pending, committed,
                    result >>
    /\ UNCHANGED << validator_query, preview_rows >>
    /\ UNCHANGED diff_vars
    /\ UNCHANGED route_vars
    /\ UNCHANGED count_vars

\* QueryValidator.validate_generated_query(query), called directly as the
\* tests do: the caller gets the tuple and keeps the text it passed.
ValidateCall ==
    /\ pc = "idle"
    /\ \E sql \in ValidatorTexts :
        /\ request' = [op |-> "validate", sql |-> sql, limit |-> 0]
        /\ query' = sql
        /\ query_type' = validate_generated_query(sql).query_type
        /\ validator_query' = rewritten_query(sql)
        /\ Return(validate_generated_query(sql).valid,
                  validate_generated_query(sql).error,
                  validate_generated_query(sql).query_type)
    /\ UNCHANGED << preview_query, log, pending, committed, preview_rows >>
    /\ UNCHANGED diff_vars
    /\ UNCHANGED route_vars
    /\ UNCHANGED count_vars

\* DiffService.calculate_row_diff(before_rows, after_rows)
DiffCall ==
    /\ pc = "idle"
    /\ \E before \in RowLists : \E after \in RowLists :
        /\ before_rows' = before
        /\ after_rows' = after
        /\ diff' \in calculate_row_diff(before, after)
    /\ request' = [op |-> "diff", sql |-> << >>, limit |-> 0]
    /\ pc' = "done"
    /\ UNCHANGED << query, query_type, preview_query, log, pending, committed,
                    result, validator_query, preview_rows, changes >>
    /\ UNCHANGED route_vars
    /\ UNCHANGED count_vars

\* DiffService.compare_column_changes(before_rows, after_rows)
ColumnChangesCall ==
    /\ pc = "idle"
    /\ \E before \in RowLists : \E after \in RowLists :
        /\ before_rows' = before
        /\ after_rows' = after
        /\ changes' = compare_column_changes(before, after)
    /\ request' = [op |-> "columns", sql |-> << >>, limit |-> 0]
    /\ pc' = "done"
    /\ UNCHANGED << query, query_type, preview_query, log, pending, committed,
                    result, validator_query, preview_rows, diff >>
    /\ UNCHANGED route_vars
    /\ UNCHANGED count_vars

\* -------------------------------------------- QueryExecutor.execute_query

\* Validation and the choice of the read or the write path.
execute_query ==
    /\ pc = "execute_query"
    /\ LET v == validate_generated_query(query)
       IN  IF ~v.valid
           THEN /\ Return(FALSE, v.error, NoneVal)
                /\ UNCHANGED query_type
           ELSE /\ query_type' = v.query_type
                /\ pc' = IF v.query_type = "SELECT" THEN "read_execute"
                         ELSE "write_execute"
                /\ UNCHANGED result
    /\ validator_query' = rewritten_query(query)
    /\ UNCHANGED << request, query, preview_query, log, pending, committed >>
    /\ UNCHANGED preview_rows
    /\ UNCHANGED diff_vars
    /\ UNCHANGED route_vars
    /\ UNCHANGED count_vars

\* --------------------------------------- TransactionManager.execute_read_only
execute_read_only_execute ==
    /\ pc = "read_execute"
    /\ \E outcome \in SessionExecuteOutcomes :
        /\ SessionExecute(query, outcome)
        /\ IF outcome = "ok" THEN pc' = "read_fetchall" /\ UNCHANGED result
           ELSE IF outcome = "cancel" THEN Escape("cancelled")
           ELSE Return(FALSE, DBError, query_type)
    /\ UNCHANGED << request, query, query_type, preview_query >>
    /\ UNCHANGED << validator_query, preview_rows >>
    /\ UNCHANGED diff_vars
    /\ UNCHANGED route_vars
    /\ UNCHANGED count_vars

execute_read_only_fetchall ==
    /\ pc = "read_fetchall"
    /\ \E ok \in BOOLEAN :
        /\ ResultFetchall(ok)
        /\ IF ok THEN Return(TRUE, NoneVal, query_type)
           ELSE Return(FALSE, DBError, query_type)
    /\ UNCHANGED << request, query, query_type, preview_query >>
    /\ UNCHANGED << validator_query, preview_rows >>
    /\ UNCHANGED diff_vars
    /\ UNCHANGED route_vars
    /\ UNCHANGED count_vars

\* --------------------------------- TransactionManager.execute_with_transaction

\* Mutant: session.execute sits in the inner try, so its exception goes to
\* the inner handler.
execute_with_transaction_execute_inner ==
    /\ pc = "write_execute"
    /\ \E outcome \in SessionExecuteOutcomes :
        /\ SessionExecute(query, outcome)
        /\ pc' = IF outcome = "ok" THEN "write_fetchall"
                 ELSE IF outcome = "cancel" THEN "cancelled"
                 ELSE "write_commit_count"
    /\ UNCHANGED << request, query, query_type, preview_query, result >>
    /\ UNCHANGED << validator_query, preview_rows >>
    /\ UNCHANGED diff_vars
    /\ UNCHANGED route_vars
    /\ UNCHANGED count_vars

\* result = await session.execute(text(query)); an exception goes to the
\* outer handler.
execute_with_transaction_execute ==
    /\ pc = "write_execute"
    /\ \E outcome \in SessionExecuteOutcomes :
        /\ SessionExecute(query, outcome)
        /\ pc' = IF outcome = "ok" THEN "write_fetchall"
                 ELSE IF outcome = "cancel" THEN "cancelled"
                 ELSE "write_rollback"
    /\ UNCHANGED << request, query, query_type, preview_query, result >>
    /\ UNCHANGED << validator_query, preview_rows >>
    /\ UNCHANGED diff_vars
    /\ UNCHANGED route_vars
    /\ UNCHANGED count_vars

\* rows = result.fetchall(), in the inner try: an exception goes to the
\* inner handler, which reads result.rowcount and commits.
execute_with_transaction_fetchall ==
    /\ pc = "write_fetchall"
    /\ \E ok \in BOOLEAN :
        /\ ResultFetchall(ok)
        /\ pc' = IF ok THEN "write_commit_rows" ELSE "write_commit_count"
    /\ UNCHANGED << request, query, query_type, preview_query, result >>
    /\ UNCHANGED << validator_query, preview_rows >>
    /\ UNCHANGED diff_vars
    /\ UNCHANGED route_vars
    /\ UNCHANGED count_vars

\* await session.commit() after fetchall, still in the inner try: an
\* exception goes to the inner handler too.
execute_with_transaction_commit_rows ==
    /\ pc = "write_commit_rows"
    /\ \E outcome \in AwaitOutcomes :
        /\ SessionCommit(outcome)
        /\ IF outcome = "ok" THEN Return(TRUE, NoneVal, query_type)
           ELSE IF outcome = "cancel" THEN Escape("cancelled")
           ELSE pc' = "write_commit_count" /\ UNCHANGED result
    /\ UNCHANGED << request, query, query_type, preview_query >>
    /\ UNCHANGED << validator_query, preview_rows >>
    /\ UNCHANGED diff_vars
    /\ UNCHANGED route_vars
    /\ UNCHANGED count_vars

\* Mutant: the rollback runs whether or not the commit raised.
execute_with_transaction_commit_count_then_rollback ==
    /\ pc = "write_commit_count"
    /\ \E outcome \in AwaitOutcomes :
        /\ SessionCommit(outcome)
        /\ pc' = IF outcome = "cancel" THEN "cancelled" ELSE "write_rollback"
    /\ UNCHANGED << request, query, query_type, preview_query, result >>
    /\ UNCHANGED << validator_query, preview_rows >>
    /\ UNCHANGED diff_vars
    /\ UNCHANGED route_vars
    /\ UNCHANGED count_vars

\* await session.commit() in the inner handler: an exception goes to the
\* outer handler.
execute_with_transaction_commit_count ==
    /\ pc = "write_commit_count"
    /\ \E outcome \in AwaitOutcomes :
        /\ SessionCommit(outcome)
        /\ IF outcome = "ok" THEN Return(TRUE, NoneVal, query_type)
           ELSE IF outcome = "cancel" THEN Escape("cancelled")
           ELSE pc' = "write_rollback" /\ UNCHANGED result
    /\ UNCHANGED << request, query, query_type, preview_query >>
    /\ UNCHANGED << validator_query, preview_rows >>
    /\ UNCHANGED diff_vars
    /\ UNCHANGED route_vars
    /\ UNCHANGED count_vars

\* await session.rollback() in the outer handler: nothing catches an
\* exception raised here.
execute_with_transaction_rollback ==
    /\ pc = "write_rollback"
    /\ \E outcome \in AwaitOutcomes :
        /\ SessionRollback(outcome)
        /\ IF outcome = "ok" THEN Return(FALSE, DBError, query_type)
           ELSE IF outcome = "cancel" THEN Escape("cancelled")
           ELSE Escape("raised")
    /\ UNCHANGED << request, query, query_type, preview_query >>
    /\ UNCHANGED << validator_query, preview_rows >>
    /\ UNCHANGED diff_vars
    /\ UNCHANGED route_vars
    /\ UNCHANGED count_vars

\* -------------------------------------------- QueryExecutor.preview_query

\* The text the preview runs for a statement of the given kind.
PreviewText(type, text) ==
    IF type = "UPDATE" THEN convert_update_to_select(text)
    ELSE IF type = "DELETE" THEN convert_delete_to_select(text)
    ELSE text

\* Validation, the statement kind and the conversion to a SELECT.
preview_query_validate ==
    /\ pc = "preview_query"
    /\ LET v == validate_preview_query(query)
           type == validate_generated_query(query).query_type
       IN  IF ~v.valid
           THEN /\ Return(FALSE, v.error, NoneVal)
                /\ UNCHANGED << query_type, preview_query, validator_query >>
           ELSE /\ query_type' = type
                /\ validator_query' = rewritten_query(query)
                /\ preview_query' = PreviewText(type, query)
                /\ pc' = "count_execute"
                /\ UNCHANGED result
    /\ UNCHANGED << request, query, log, pending, committed >>
    /\ UNCHANGED preview_rows
    /\ UNCHANGED diff_vars
    /\ UNCHANGED route_vars
    /\ UNCHANGED count_vars

\* Mutant: the preview text is run the way execute_with_transaction runs a
\* statement, committing after the fetch.
execute_preview_query_execute_in_transaction ==
    /\ pc = "count_execute"
    /\ \E outcome \in SessionExecuteOutcomes :
        /\ SessionExecute(preview_query, outcome)
        /\ IF outcome = "ok" THEN pc' = "write_fetchall" /\ UNCHANGED result
           ELSE IF outcome = "cancel" THEN Escape("cancelled")
           ELSE Return(FALSE, DBError, query_type)
    /\ UNCHANGED << request, query, query_type, preview_query >>
    /\ UNCHANGED << validator_query, preview_rows >>
    /\ UNCHANGED diff_vars
    /\ UNCHANGED route_vars
    /\ UNCHANGED count_vars

\* TransactionManager.execute_preview_query: the affected-row count.
execute_preview_query_execute ==
    /\ pc = "count_execute"
    /\ \E outcome \in SessionExecuteOutcomes :
        /\ SessionExecute(preview_query, outcome)
        /\ IF outcome = "ok" THEN pc' = "count_fetchall" /\ UNCHANGED result
           ELSE IF outcome = "cancel" THEN Escape("cancelled")
           ELSE Return(FALSE, DBError, query_type)
    /\ UNCHANGED << request, query, query_type, preview_query >>
    /\ UNCHANGED << validator_query, preview_rows >>
    /\ UNCHANGED diff_vars
    /\ UNCHANGED route_vars
    /\ UNCHANGED count_vars

\* rows = result.fetchall(); affected_rows = len(rows)
execute_preview_query_fetchall ==
    /\ pc = "count_fetchall"
    /\ \E ok \in BOOLEAN :
        /\ ResultFetchall(ok)
        /\ IF ok
           THEN /\ \E rows \in FetchedRows(preview_query) :
                       /\ table_rows' = rows
                       /\ affected_rows' = rows
                /\ pc' = "rows_execute"
                /\ UNCHANGED result
           ELSE /\ Return(FALSE, DBError, query_type)
                /\ UNCHANGED count_vars
    /\ UNCHANGED << request, query, query_type, preview_query >>
    /\ UNCHANGED << validator_query, preview_rows >>
    /\ UNCHANGED diff_vars
    /\ UNCHANGED route_vars

\* Another request commits a write to the table while the preview is
\* between its two statements (TransactionManager.execute_with_transaction
\* on the other request's session): the statement finds other rows when it
\* is run again.
concurrent_commit ==
    /\ pc = "rows_execute"
    /\ \E rows \in FetchedRows(preview_query) \ {table_rows} :
           table_rows' = rows
    /\ UNCHANGED << pc, request, query, query_type, preview_query, log,
                    pending, committed, result, affected_rows >>
    /\ UNCHANGED << validator_query, preview_rows >>
    /\ UNCHANGED diff_vars
    /\ UNCHANGED route_vars

\* The second run of the preview text, for the rows shown.
preview_query_execute ==
    /\ pc = "rows_execute"
    /\ \E outcome \in SessionExecuteOutcomes :
        /\ SessionExecute(preview_query, outcome)
        /\ IF outcome = "ok"
           THEN pc' = "rows_fetchall" /\ UNCHANGED << result, affected_rows >>
           ELSE IF outcome = "cancel"
           THEN Escape("cancelled") /\ UNCHANGED affected_rows
           ELSE Return(FALSE, DBError, query_type) /\ affected_rows' = 0
    /\ UNCHANGED << request, query, query_type, preview_query >>
    /\ UNCHANGED << validator_query, preview_rows, table_rows >>
    /\ UNCHANGED diff_vars
    /\ UNCHANGED route_vars

\* rows = result.fetchall(); preview_data = [... for row in rows[:100]]
preview_query_fetchall ==
    /\ pc = "rows_fetchall"
    /\ \E ok \in BOOLEAN :
        /\ ResultFetchall(ok)
        /\ IF ok
           THEN /\ preview_rows' = Min(table_rows, PreviewCap)
                /\ Return(TRUE, NoneVal, query_type)
                /\ UNCHANGED affected_rows
           ELSE /\ preview_rows' = 0
                /\ Return(FALSE, DBError, query_type)
                /\ affected_rows' = 0
    /\ UNCHANGED << request, query, query_type, preview_query >>
    /\ UNCHANGED << validator_query, table_rows >>
    /\ UNCHANGED diff_vars
    /\ UNCHANGED route_vars

\* ------------------------------------ ConnectionManager.get_session

\* Mutant: get_session hands out one session, made once.
async_session_maker_shared(n) == 1

\* session = self.async_session_maker(): a new session at every call; n
\* sessions were made before.
async_session_maker(n) == n + 1

\* What is pending on the session with this id when a request gets it: a
\* session nobody else holds has nothing pending.
SessionPending(id) ==
    IF waiting # NoContext /\ waiting.session = id THEN waiting.pending
    ELSE << >>

\* The route's `async with` body ended with a result: return through the
\* finally clause of get_session.
route_return ==
    /\ pc = "done"
    /\ request.op # "batch"
    /\ session # 0
    /\ pc' = "exit"
    /\ UNCHANGED << request, query, query_type, preview_query, log, pending,
                    committed, result >>
    /\ UNCHANGED << validator_query, preview_rows >>
    /\ UNCHANGED diff_vars
    /\ UNCHANGED route_vars
    /\ UNCHANGED count_vars

\* except Exception: await session.rollback(); raise.  An Exception left the
\* body of the `async with`; whatever the rollback does, an exception goes
\* on through the finally clause.
get_session_except ==
    /\ pc = "raised"
    /\ session # 0
    /\ \E outcome \in AwaitOutcomes : SessionRollback(outcome)
    /\ pc' = "exit_raised"
    /\ UNCHANGED << request, query, query_type, preview_query, result >>
    /\ UNCHANGED << validator_query, preview_rows >>
    /\ UNCHANGED diff_vars
    /\ UNCHANGED route_vars
    /\ UNCHANGED count_vars

\* finally: await session.close().  The body ended ("exit"), or an
\* exception is on its way out; a CancelledError comes here directly.  The
\* close gives the connection back and what was not committed is lost.
get_session_finally ==
    /\ pc \in {"exit", "exit_raised", "cancelled"}
    /\ session # 0
    /\ \E outcome \in AwaitOutcomes :
        /\ log' = Append(log, Call("close", << >>, outcome))
        /\ pending' = IF outcome = "ok" THEN << >> ELSE pending
        /\ pc' = IF pc = "exit" /\ outcome = "ok" THEN "returned"
                 ELSE "failed"
    /\ closes' = closes + 1
    /\ UNCHANGED committed
    /\ UNCHANGED << request, query, query_type, preview_query, result >>
    /\ UNCHANGED << validator_query, preview_rows >>
    /\ UNCHANGED diff_vars
    /\ UNCHANGED << session, created, batch, results, waiting >>
    /\ UNCHANGED count_vars

\* ----------------------------------------------------------- execute_batch

\* Largest number of statements in a batch.
MaxBatch == 2

\* The statements of a batch: a read, a write, and one the validator
\* rejects.
BatchTexts ==
    {<< "SELECT", " ", "*", " ", "FROM", " ", "users" >>,
     << "INSERT", " ", "INTO", " ", "users", " ", "VALUES", " ", "(", "1",
        ")" >>,
     << "DELETE", " ", "FROM", " ", "users" >>}

Batches == SeqsUpTo(BatchTexts, MaxBatch)

\* POST /api/v1/execute/batch: results = [] and the session of the batch.
execute_batch ==
    /\ pc = "idle"
    /\ \E requests \in Batches :
        /\ request' = [op |-> "batch", sql |-> << >>, limit |-> 0,
                       requests |-> requests]
        /\ batch' = requests
    /\ results' = << >>
    /\ session' = async_session_maker(created)
    /\ created' = created + 1
    /\ pc' = "batch_for"
    /\ UNCHANGED << query, query_type, preview_query, log, pending, committed,
                    result >>
    /\ UNCHANGED << validator_query, preview_rows >>
    /\ UNCHANGED diff_vars
    /\ UNCHANGED << closes, waiting >>
    /\ UNCHANGED count_vars

\* for request in requests: the next call of QueryExecutor.execute_query,
\* or the end of the `async with` body.
execute_batch_for ==
    /\ pc = "batch_for"
    /\ IF batch = << >>
       THEN /\ pc' = "exit"
            /\ UNCHANGED << query, batch >>
       ELSE /\ query' = Head(batch)
            /\ batch' = Tail(batch)
            /\ pc' = "execute_query"
    /\ query_type' = NoneVal
    /\ result' = NoResult
    /\ UNCHANGED << request, preview_query, log, pending, committed >>
    /\ UNCHANGED << validator_query, preview_rows >>
    /\ UNCHANGED diff_vars
    /\ UNCHANGED << session, created, closes, results, waiting >>
    /\ UNCHANGED count_vars

\* results.append(result)
execute_batch_append ==
    /\ pc = "done"
    /\ request.op = "batch"
    /\ results' = Append(results, result)
    /\ pc' = "batch_for"
    /\ UNCHANGED << request, query, query_type, preview_query, log, pending,
                    committed, result >>
    /\ UNCHANGED << validator_query, preview_rows >>
    /\ UNCHANGED diff_vars
    /\ UNCHANGED << session, created, closes, batch, waiting >>
    /\ UNCHANGED count_vars

\* ------------------------------------------------- concurrent requests

\* The texts request number k sends: a read and a write of row k.
RequestTexts(k) ==
    {<< "SELECT", " ", "*", " ", "FROM", " ", "users", " ", "WHERE", " ",
        "id", "=", ToString(k) >>,
     << "INSERT", " ", "INTO", " ", "users", " ", "VALUES", " ", "(",
        ToString(k), ")" >>}

\* POST /api/v1/execute/query on a session of its own:
\* async with connection_manager.get_session() as session:
\*     result = await QueryExecutor.execute_query(session, request.sql)
execute_query_route ==
    /\ pc = "idle"
    /\ \E sql \in RequestTexts(created + 1) :
        /\ request' = [op |-> "execute", sql |-> sql, limit |-> 0]
        /\ query' = sql
    /\ session' = async_session_maker(created)
    /\ pending' = SessionPending(async_session_maker(created))
    /\ created' = created + 1
    /\ pc' = "execute_query"
    /\ UNCHANGED << query_type, preview_query, log, committed, result >>
    /\ UNCHANGED << validator_query, preview_rows >>
    /\ UNCHANGED diff_vars
    /\ UNCHANGED << closes, batch, results, waiting >>
    /\ UNCHANGED count_vars

\* The texts sent for preview: a read, the two kinds of write the preview
\* converts, and a write it runs as it is.
PreviewTexts ==
    {<< "SELECT", " ", "*", " ", "FROM", " ", "users" >>,
     << "UPDATE", " ", "users", " ", "SET", " ", "name", "=", "1", " ",
        "WHERE", " ", "id", "=", "1" >>,
     << "DELETE", " ", "FROM", " ", "users", " ", "WHERE", " ",
        "id", "=", "1" >>,
     << "DELETE", " ", "FROM", " ", "users" >>}

\* POST /api/v1/preview/execute on a session of its own:
\* async with connection_manager.get_session() as session:
\*     result = await PreviewService.preview_with_limit(session, ...)
preview_query_route ==
    /\ pc = "idle"
    /\ \E sql \in PreviewTexts : \E limit \in Limits :
        /\ request' = [op |-> "preview", sql |-> sql, limit |-> limit]
        /\ query' = limited_query(sql, limit)
    /\ session' = async_session_maker(created)
    /\ pending' = SessionPending(async_session_maker(created))
    /\ created' = created + 1
    /\ pc' = "preview_query"
    /\ UNCHANGED << query_type, preview_query, log, committed, result >>
    /\ UNCHANGED << validator_query, preview_rows >>
    /\ UNCHANGED diff_vars
    /\ UNCHANGED << closes, batch, results, waiting >>
    /\ UNCHANGED count_vars

\* What belongs to the request that runs: its locals, its session, the
\* calls it made and what is pending on its session.
Context ==
    [pc |-> pc, request |-> request, query |-> query,
     query_type |-> query_type, result |-> result, log |-> log,
     pending |-> pending, session |-> session, closes |-> closes,
     validator_query |-> validator_query]

\* A request that has not begun.
FreshContext ==
    [pc |-> "idle", request |-> NoRequest, query |-> << >>,
     query_type |-> NoneVal, result |-> NoResult, log |-> << >>,
     pending |-> << >>, session |-> 0, closes |-> 0,
     validator_query |-> << >>]

\* The event loop: the request that runs is suspended at an await and the
\* other request goes on (or begins).  What is pending stays with its
\* session.
Switch ==
    /\ pc # "idle"
    /\ LET next == IF waiting = NoContext THEN FreshContext ELSE waiting
       IN  /\ next.pc \notin {"returned", "failed"}
           /\ pc' = next.pc
           /\ request' = next.request
           /\ query' = next.query
           /\ query_type' = next.query_type
           /\ result' = next.result
           /\ log' = next.log
           /\ pending' = IF next.session = session THEN pending
                         ELSE next.pending
           /\ session' = next.session
           /\ closes' = next.closes
           /\ validator_query' = next.validator_query
    /\ waiting' = Context
    /\ UNCHANGED << preview_query, committed, preview_rows >>
    /\ UNCHANGED diff_vars
    /\ UNCHANGED << created, batch, results >>
    /\ UNCHANGED count_vars

\* -------------------------------------------------------- specification
Next ==
    \/ ExecuteRoute
    \/ SimulateRoute
    \/ PreviewRoute
    \/ ValidateCall
    \/ DiffCall
    \/ ColumnChangesCall
    \/ execute_query
    \/ execute_read_only_execute
    \/ execute_read_only_fetchall
    \/ execute_with_transaction_execute
    \/ execute_with_transaction_fetchall
    \/ execute_with_transaction_commit_rows
    \/ execute_with_transaction_commit_count
    \/ execute_with_transaction_rollback
    \/ preview_query_validate
    \/ execute_preview_query_execute
    \/ execute_preview_query_fetchall
    \/ preview_query_execute
    \/ preview_query_fetchall

Spec == Init /\ [][Next]_vars

\* The batch route on its session, from get_session to session.close().
BatchNext ==
    \/ execute_batch
    \/ execute_batch_for
    \/ execute_batch_append
    \/ execute_query
    \/ execute_read_only_execute
    \/ execute_read_only_fetchall
    \/ execute_with_transaction_execute
    \/ execute_with_transaction_fetchall
    \/ execute_with_transaction_commit_rows
    \/ execute_with_transaction_commit_count
    \/ execute_with_transaction_rollback
    \/ get_session_except
    \/ get_session_finally

BatchSpec == Init /\ [][BatchNext]_vars

\* Requests on /api/v1/execute/query served at the same time, each from
\* get_session to session.close().
ConcurrentNext ==
    \/ execute_query_route
    \/ Switch
    \/ execute_query
    \/ execute_read_only_execute
    \/ execute_read_only_fetchall
    \/ execute_with_transaction_execute
    \/ execute_with_transaction_fetchall
    \/ execute_with_transaction_commit_rows
    \/ execute_with_transaction_commit_count
    \/ execute_with_transaction_rollback
    \/ route_return
    \/ get_session_except
    \/ get_session_finally

ConcurrentSpec == Init /\ [][ConcurrentNext]_vars

\* One request on /api/v1/execute/query or /api/v1/preview/execute, from
\* get_session to session.close().
SessionNext ==
    \/ execute_query_route
    \/ preview_query_route
    \/ execute_query
    \/ execute_read_only_execute
    \/ execute_read_only_fetchall
    \/ execute_with_transaction_execute
    \/ execute_with_transaction_fetchall
    \/ execute_with_transaction_commit_rows
    \/ execute_with_transaction_commit_count
    \/ execute_with_transaction_rollback
    \/ preview_query_validate
    \/ execute_preview_query_execute
    \/ execute_preview_query_fetchall
    \/ concurrent_commit
    \/ preview_query_execute
    \/ preview_query_fetchall
    \/ route_return
    \/ get_session_except
    \/ get_session_finally

SessionSpec == Init /\ [][SessionNext]_vars

\* ------------------------------------------------------- terms of claims

\* The positions of the log where the session was called with `name`.
Calls(name) == {i \in 1..Len(log) : log[i].call = name}

Succeeded(name) == {i \in Calls(name) : log[i].outcome = "ok"}

Raised(name) ==
    {i \in Calls(name) : log[i].outcome \in {"raise", "raise_partial"}}

\* The calls during which the task was cancelled.
Cancelled(name) == {i \in Calls(name) : log[i].outcome = "cancel"}

\* The request went through TransactionManager.execute_with_transaction.
WritePath == request.op = "execute" /\ query_type \notin {NoneVal, "SELECT"}

PreviewPath == request.op \in {"simulate", "preview"}

\* QueryExecutor.execute_query has made its validation decision.
Validated == request.op = "execute" /\ pc \notin {"idle", "execute_query"}

\* The validation decision, read from the state it leaves.
Accepted == Validated /\ query_type # NoneVal

Rejected == Validated /\ pc = "done" /\ log = << >> /\ ~result.success

\* A text that passed the dangerous-pattern check and the WHERE check.
Checked(text) == validate_query(text).ok /\ require_where_for_delete(text).ok

IsDeleteText(text) == StartsWith(query_clean(text), "DELETE")

HasWhereToken(text) == HasWord(query_clean(text), "WHERE")

\* A semicolon with a statement keyword anywhere after it.
SemicolonThenKeyword(s) ==
    \E i \in 1..Len(s) : \E j \in (i + 1)..Len(s) :
        s[i] = ";" /\ Upper(s[j]) \in StatementKeywords

\* ---------------------------------------------------------------- claims

\* C1: in one invocation of execute_with_transaction at most one of
\* {commit, rollback} occurs: no invocation commits successfully more than
\* once, and none both commits successfully and rolls back.
C1_AtMostOneOfCommitRollback ==
    /\ Cardinality(Succeeded("commit")) <= 1
    /\ ~(Succeeded("commit") # {} /\ Calls("rollback") # {})

\* C1 witness: an invocation whose first commit raised and whose second
\* commit succeeded has returned.
C1_Witness ==
    /\ WritePath /\ pc = "done"
    /\ Raised("commit") # {} /\ Succeeded("commit") # {}

\* C2 (as claimed): whenever session.execute or a session.commit attempt of
\* execute_with_transaction raises, the session is rolled back and the call
\* returns failure.
C2_RaiseMeansRollbackAndFailure ==
    (WritePath /\ pc = "done" /\ Raised("execute") \cup Raised("commit") # {})
        => (~result.success /\ Calls("rollback") # {})

\* C3: when the statement of execute_with_transaction fails during
\* execution, nothing of it is made durable and no success is returned.
C3_FailedWriteIsAtomic ==
    (WritePath /\ Raised("execute") # {})
        => (committed = << >> /\ (pc = "done" => ~result.success))

\* C3 witness: a write that failed after changing rows was rolled back and
\* reported as a failure.
C3_Witness ==
    /\ WritePath /\ pc = "done" /\ ~result.success
    /\ \E i \in Calls("execute") : log[i].outcome = "raise_partial"
    /\ Succeeded("rollback") # {} /\ pending = << >>

\* C4: session.commit is reached only after statements that passed the
\* dangerous-pattern check and the DELETE-requires-WHERE check, and nothing
\* else is ever made durable.
C4_CommitOnlyChecked ==
    /\ \A i \in Calls("commit") : \A j \in 1..(i - 1) :
           log[j].call = "execute" => Checked(log[j].text)
    /\ \A k \in 1..Len(committed) : Checked(committed[k].text)

\* C4 witness: a DELETE with a WHERE clause was committed.
C4_Witness ==
    /\ pc = "done" /\ result.success /\ query_type = "DELETE"
    /\ committed # << >>

\* C5: no preview request ever calls session.commit.
C5_PreviewNeverCommits ==
    PreviewPath => (Calls("commit") = {} /\ committed = << >>)

\* C5 witness: the preview of a write statement returned success.
C5_Witness ==
    /\ PreviewPath /\ pc = "done" /\ result.success
    /\ get_query_type(request.sql) \in {"INSERT", "UPDATE", "DELETE"}

\* C6 (as claimed): for a text whose kind is UPDATE or DELETE, every text
\* the preview passes to session.execute is a SELECT statement.
C6_PreviewExecutesSelect ==
    (PreviewPath /\ query_type \in {"UPDATE", "DELETE"})
        => \A i \in Calls("execute") : get_query_type(log[i].text) = "SELECT"

\* C7 (as claimed): a text the policy engine rejects is never passed to
\* session.execute, in the execute and in the preview pipeline, and the
\* caller gets a failure with the rejection message.
C7_RejectedNeverExecuted ==
    (request.op # "none" /\ ~validate_generated_query(query).valid)
        => /\ Calls("execute") = {}
           /\ pc = "done" =>
                  /\ ~result.success
                  /\ result.error = validate_generated_query(query).error

\* C8 (as claimed): no exception raised by the session leaves a public
\* operation.
C8_NoExceptionEscapes == pc # "raised"

\* C9 (as claimed): a text whose comment-stripped form has a semicolon
\* followed anywhere by a statement keyword is rejected as multiple
\* statements.
C9_BatchRejected ==
    (Validated /\ SemicolonThenKeyword(query_clean(query)))
        => (Rejected /\ result.error = MsgMultiple)

ValidatorReturned == request.op = "validate" /\ pc = "done"

\* The text without its SQL comments, read from left to right: a line
\* comment runs from -- to the end of the line, a block comment from /* to
\* the next */.
RECURSIVE WithoutComments(_)
WithoutComments(s) ==
    IF s = << >> THEN << >>
    ELSE LET closers == {j \in 2..Len(s) : s[j] = "*/"}
         IN  IF Head(s) = "--" THEN WithoutComments(SkipLine(Tail(s)))
             ELSE IF Head(s) = "/*" /\ closers # {}
             THEN LET j == CHOOSE k \in closers : \A m \in closers : k <= m
                  IN  WithoutComments(Slice(s, j + 1, Len(s)))
             ELSE << Head(s) >> \o WithoutComments(Tail(s))

\* The text begins, its comments and leading whitespace aside, with the
\* keywords DROP DATABASE.
BeginsDropDatabase(text) ==
    LET clean == WithoutComments(text)
        i == LeadingSpace(clean) + 1
        k == LeadingSpace(Slice(clean, i + 1, Len(clean)))
        j == i + k + 1
    IN  /\ j <= Len(clean)
        /\ Upper(clean[i]) = "DROP"
        /\ k >= 1
        /\ Upper(clean[j]) = "DATABASE"
        /\ BoundaryAfter(clean, j)

\* The text begins, its comments and leading whitespace aside, with the
\* keyword TRUNCATE.
BeginsTruncate(text) ==
    LET clean == WithoutComments(text)
        i == LeadingSpace(clean) + 1
    IN  /\ i <= Len(clean)
        /\ Upper(clean[i]) = "TRUNCATE"
        /\ BoundaryAfter(clean, i)

\* The denylisted construct a rejection message names.
Names(error) ==
    IF error = MsgDropDatabase THEN "DROP DATABASE"
    ELSE IF error = MsgTruncate THEN "TRUNCATE"
    ELSE NoneVal

\* C11 (as claimed): a text that begins, after comment stripping, with
\* DROP DATABASE or TRUNCATE in any letter case is rejected, and the
\* message names that construct.
C11_DenylistNamesConstruct ==
    ValidatorReturned =>
        /\ BeginsDropDatabase(query) =>
               (~result.success /\ Names(result.error) = "DROP DATABASE")
        /\ BeginsTruncate(query) =>
               (~result.success /\ Names(result.error) = "TRUNCATE")

IsSelectText(text) == StartsWith(query_clean(text), "SELECT")

HasLimitToken(text) == HasWord(query_clean(text), "LIMIT")

\* The text holds the clause LIMIT n.
ContainsLimit(text, n) ==
    \E i \in 1..(Len(text) - 2) :
        /\ Upper(text[i]) = "LIMIT" /\ BoundaryBefore(text, i)
        /\ IsSpace(text[i + 1])
        /\ text[i + 2] = ToString(n) /\ BoundaryAfter(text, i + 2)

\* C12 (as claimed): when validate_generated_query accepts a SELECT without
\* a LIMIT keyword, the text its caller is left with holds LIMIT 100; when
\* the SELECT has a LIMIT the caller is left with the original text.
C12_CallerGetsLimitedText ==
    (ValidatorReturned /\ result.success /\ IsSelectText(request.sql))
        => IF HasLimitToken(request.sql)
           THEN query = request.sql
           ELSE ContainsLimit(query, DefaultLimit)

\* C13 (as claimed): for a SELECT without a LIMIT keyword that execute_query
\* accepts, every text passed to session.execute is the LIMIT-bounded text
\* validation built, not the caller's unbounded text.
C13_ExecutesBoundedText ==
    (request.op = "execute" /\ query_type = "SELECT"
        /\ ~HasLimitToken(request.sql))
        => \A i \in Calls("execute") :
               /\ log[i].text = validator_query
               /\ ContainsLimit(log[i].text, DefaultLimit)

\* The text limit injection is claimed to build: trailing semicolons gone,
\* a compound query wrapped in parentheses, LIMIT n at the end.
BoundedText(text, n) ==
    IF HasCompound(query_clean(text))
    THEN << "(" >> \o RStripSemicolon(text) \o << ")" >> \o LimitClause(n)
    ELSE RStripSemicolon(text) \o LimitClause(n)

\* C14 (as claimed): for a SELECT without LIMIT, inject_limit_to_select and
\* preview_with_limit strip the trailing semicolons and build
\* "(<original>) LIMIT n" for a compound query and "<original> LIMIT n"
\* otherwise, so that no semicolon is left before the LIMIT clause.
C14_InjectionStripsSemicolons ==
    /\ (ValidatorReturned /\ result.success /\ IsSelectText(request.sql)
            /\ ~HasLimitToken(request.sql))
           => validator_query = BoundedText(request.sql, DefaultLimit)
    /\ (request.op = "preview" /\ IsSelectText(request.sql)
            /\ ~HasLimitToken(request.sql) /\ pc = "preview_query")
           => query = BoundedText(request.sql, request.limit)

\* The decisions the execute pipeline takes on a text: denylist verdict,
\* DELETE-requires-WHERE verdict, statement kind, LIMIT taken as present.
ExecuteDecisions(text) ==
    << validate_query(text).ok, require_where_for_delete(text).ok,
       get_query_type(text),
       inject_limit_to_select(text, DefaultLimit) = text >>

\* The decisions the preview pipeline takes on a text.
PreviewDecisions(text, limit) ==
    << validate_preview_query(text).valid,
       validate_generated_query(text).query_type,
       limited_query(text, limit) = text >>

\* C15 (as claimed): a text and the same text without its comments get the
\* same decisions, in the execute and in the preview pipeline.
C15_CommentsDecideNothing ==
    /\ request.op \in {"execute", "validate"} =>
           ExecuteDecisions(request.sql)
               = ExecuteDecisions(WithoutComments(request.sql))
    /\ request.op = "preview" =>
           PreviewDecisions(request.sql, request.limit)
               = PreviewDecisions(WithoutComments(request.sql), request.limit)

\* The statement kinds.
Kinds == {"SELECT", "INSERT", "UPDATE", "DELETE", "ALTER"}

\* The first word of a text, in upper case; NoneVal when the text does not
\* begin with a word.
FirstKeyword(s) ==
    LET i == LeadingSpace(s) + 1
    IN  IF i <= Len(s) /\ IsWord(s[i]) /\ BoundaryAfter(s, i)
        THEN Upper(s[i])
        ELSE NoneVal

\* C16 (as claimed): validate_generated_query returns either acceptance
\* with no error and a kind, which is the first keyword of the text without
\* its comments, or rejection with an error and no kind; a text whose first
\* keyword is no kind is rejected.
C16_OutcomeShapes ==
    ValidatorReturned =>
        LET keyword == FirstKeyword(WithoutComments(query))
        IN  /\ \/ /\ result.success /\ result.error = NoneVal
                  /\ result.query_type \in Kinds
                  /\ result.query_type = keyword
               \/ /\ ~result.success /\ result.error # NoneVal
                  /\ result.query_type = NoneVal
            /\ keyword \notin Kinds => ~result.success

\* The request has come to its end: a result, or an exception that left it.
Finished == pc \in {"done", "raised", "cancelled"}

\* C17 (as claimed): when a deadline cancels execute_with_transaction while
\* it awaits session.execute or session.commit, the session is rolled back
\* and a failure result is returned, as for any other exception.
C17_DeadlineMeansRollbackAndFailure ==
    (WritePath /\ Finished
        /\ Cancelled("execute") \cup Cancelled("commit") # {})
        => (pc = "done" /\ ~result.success /\ Succeeded("rollback") # {})

\* The places of a text of the form UPDATE <table> SET ... WHERE <condition>
\* with an optional semicolon at the end: the table is the run of tokens
\* after UPDATE up to the next whitespace, the condition what follows the
\* first keyword WHERE after SET and the whitespace behind it.
UpdateForm(text) ==
    LET n == Len(text)
        a == LeadingSpace(Slice(text, 2, n)) + 2
        spaces == {i \in a..n : IsSpace(text[i])}
        b == IF spaces = {} THEN n + 1
             ELSE CHOOSE i \in spaces : \A j \in spaces : i <= j
        set == b + LeadingSpace(Slice(text, b, n))
        wheres == {w \in (set + 1)..n :
                      /\ Upper(text[w]) = "WHERE"
                      /\ BoundaryBefore(text, w) /\ BoundaryAfter(text, w)}
        w == IF wheres = {} THEN n + 1
             ELSE CHOOSE i \in wheres : \A j \in wheres : i <= j
        c == w + 1 + LeadingSpace(Slice(text, w + 1, n))
        last == IF n >= 1 /\ text[n] = ";" THEN n - 1 ELSE n
    IN  [ok |-> /\ n >= 1 /\ Upper(text[1]) = "UPDATE"
                /\ a > 2 /\ a < b /\ b < set /\ set <= n
                /\ Upper(text[set]) = "SET" /\ BoundaryAfter(text, set)
                /\ w <= n /\ w + 1 < c /\ c <= last
                /\ ~IsSpace(text[last]),
         table |-> Slice(text, a, b - 1),
         condition |-> Slice(text, c, last)]

\* C18 (as claimed): for a text of that form the preview transform returns
\* exactly SELECT * FROM <table> WHERE <condition>.
C18_UpdatePreviewText ==
    (PreviewPath /\ pc # "preview_query" /\ query_type = "UPDATE"
        /\ UpdateForm(query).ok)
        => preview_query =
               SelectStar \o << " ", "FROM", " " >> \o UpdateForm(query).table
                   \o << " ", "WHERE", " " >> \o UpdateForm(query).condition

\* C19 (as claimed): a successful preview returns at most 100 rows and at
\* most as many rows as the caller's limit.
C19_PreviewHonoursRowCaps ==
    (request.op = "preview" /\ pc = "done" /\ result.success)
        => (preview_rows <= PreviewCap /\ preview_rows <= request.limit)

\* -------------------------------------------- terms of the diff claims

\* calculate_row_diff has returned.
DiffReturned == request.op = "diff" /\ pc = "done"

\* A row as the set of its (column, value) pairs.
RowSet(row) == {row[i] : i \in 1..Len(row)}

\* The rows of a list, each once.
RowSets(rows) == {RowSet(rows[i]) : i \in 1..Len(rows)}

\* C20: calculate_row_diff counts the rows of after - before, of
\* before - after and of their intersection, the rows taken as sets of
\* (column, value) pairs and each row once; added_rows and removed_rows hold
\* at most 10 rows, each of the difference it samples.
C20_RowDiffIsSetDifference ==
    DiffReturned =>
        LET before == RowSets(before_rows)
            after == RowSets(after_rows)
        IN  /\ diff.rows_added = Cardinality(after \ before)
            /\ diff.rows_removed = Cardinality(before \ after)
            /\ diff.rows_unchanged = Cardinality(before \cap after)
            /\ Cardinality(diff.added_rows) <= 10
            /\ Cardinality(diff.removed_rows) <= 10
            /\ \A row \in diff.added_rows : RowSet(row) \in after \ before
            /\ \A row \in diff.removed_rows : RowSet(row) \in before \ after

\* C20 witness: eleven rows were added and ten of them are shown, ten rows
\* are unchanged although no row of before_rows is written as in
\* after_rows, and a row occurs twice in after_rows.
C20_Witness ==
    /\ DiffReturned
    /\ diff.rows_added = 11 /\ Cardinality(diff.added_rows) = 10
    /\ diff.rows_unchanged = 0 /\ diff.rows_removed = 10
    /\ Len(after_rows) = 12

\* C21: the diff is symmetric.  Swapping the two row lists swaps rows_added
\* and rows_removed and leaves rows_unchanged as it is.
C21_RowDiffIsSymmetric ==
    DiffReturned =>
        LET back == diff_counts(after_rows, before_rows)
        IN  /\ diff.rows_added = back.rows_removed
            /\ diff.rows_removed = back.rows_added
            /\ diff.rows_unchanged = back.rows_unchanged

\* C21 witness: a diff with different numbers of added and removed rows, a
\* row left unchanged and a row that occurs twice in before_rows.
C21_Witness ==
    /\ DiffReturned
    /\ diff.rows_added > diff.rows_removed /\ diff.rows_removed > 0
    /\ diff.rows_unchanged > 0
    /\ Len(before_rows) > Cardinality(RowSets(before_rows))

\* C22 (as claimed): for every column of either row list, whether or not
\* one of the lists is empty, compare_column_changes reports the column
\* exactly when its values in before_rows, in order, differ from those in
\* after_rows, and shows at most 5 values on either side.
C22_ColumnChangedIffValuesDiffer ==
    (request.op = "columns" /\ pc = "done") =>
        /\ \A column \in AllColumns(before_rows, after_rows) :
               column \in DOMAIN changes
                   <=> ColumnValues(before_rows, column)
                           # ColumnValues(after_rows, column)
        /\ \A column \in DOMAIN changes :
               /\ Len(changes[column].before) <= ColumnSampleCap
               /\ Len(changes[column].after) <= ColumnSampleCap

\* ----------------------------------------- terms of the pipeline claims

\* The request ran a statement: its text was accepted and its kind used.
KindUsed ==
    /\ request.op \in {"execute", "simulate", "preview"}
    /\ log # << >>

\* C23 (as claimed): the kind a request uses and reports is the kind of the
\* text the caller sent, with its comments stripped, and not that of a text
\* the pipeline rewrote.
C23_KindOfCallersText ==
    KindUsed =>
        /\ query_type = get_query_type(request.sql)
        /\ pc = "done" => result.query_type = get_query_type(request.sql)

\* ------------------------------------------- terms of the session claims

\* This step is a session.commit() that succeeded.
CommitStep ==
    /\ Len(log') = Len(log) + 1
    /\ log'[Len(log')].call = "commit"
    /\ log'[Len(log')].outcome = "ok"

\* C24 (as claimed): the transaction a write commits holds the one statement
\* of that call of execute_with_transaction and nothing that ran on the
\* session before it.
C24_CommitHoldsOneStatement ==
    [][CommitStep => (Len(pending) = 1 /\ pending[1].text = query)]_vars

\* The batch is over: the session was closed and the route returned or
\* failed.
BatchOver == request.op = "batch" /\ pc \in {"returned", "failed"}

\* The database session did what it was asked except for statements that
\* failed: no call was cancelled and the close succeeded.
OnlyStatementsFailed ==
    /\ \A i \in 1..Len(log) : log[i].outcome # "cancel"
    /\ \A i \in Calls("close") : log[i].outcome = "ok"

\* C25 (as claimed): a statement of a batch begins only when the statements
\* before it have finished with their transactions committed or rolled
\* back, and the batch returns one result for every statement, in the order
\* of the request, whatever statements fail.
C25_BatchIsSequential ==
    request.op = "batch" =>
        /\ pc = "execute_query" => (pending = << >> /\ ~Aborted)
        /\ pc = "returned" =>
               /\ Len(results) = Len(request.requests)
               /\ \A i \in 1..Len(results) :
                      results[i].query_type
                          \in {NoneVal, get_query_type(request.requests[i])}
        /\ (BatchOver /\ OnlyStatementsFailed) => pc = "returned"

\* execute_read_only has returned to execute_query, which returned its
\* result.
ReadReturned ==
    /\ request.op \in {"execute", "batch"}
    /\ pc = "done"
    /\ query_type = "SELECT"

\* C26 (as claimed): execute_read_only calls neither commit nor rollback,
\* and when its statement fails it returns the failure with the message and
\* leaves no failed transaction on the session, so that a further statement
\* can run on it.
C26_ReadFailureLeavesSessionUsable ==
    ReadReturned =>
        /\ log[Len(log)].call \in {"execute", "fetchall"}
        /\ ~result.success => (result.error # NoneVal /\ ~Aborted)

\* The statements pending on a session were all executed by the request
\* with this text.
OwnStatements(statements, text) ==
    \A i \in 1..Len(statements) : statements[i].text = text

\* C27: requests served at the same time hold different sessions, and what
\* a request commits, rolls back or loses at the close is what it executed
\* itself: the statements of the other request stay as they are.
C27_RequestsShareNothing ==
    /\ (waiting # NoContext /\ session # 0) => waiting.session # session
    /\ OwnStatements(pending, query)
    /\ waiting # NoContext => OwnStatements(waiting.pending, waiting.query)
    /\ \A i \in 1..Len(committed) :
           \/ committed[i].text = query /\ Succeeded("commit") # {}
           \/ /\ waiting # NoContext
              /\ committed[i].text = waiting.query
              /\ \E j \in 1..Len(waiting.log) :
                     /\ waiting.log[j].call = "commit"
                     /\ waiting.log[j].outcome = "ok"

\* C27 witness: a request committed its statement while the other request
\* was suspended with a statement of its own executed and not committed,
\* which is still pending on the other session.
C27_Witness ==
    /\ waiting # NoContext
    /\ waiting.pc = "write_fetchall"
    /\ Len(waiting.pending) = 1
    /\ pc = "done" /\ result.success /\ query_type = "INSERT"
    /\ Len(committed) = 1 /\ pending = << >>

\* The request is over: get_session has closed the session.
SessionOver == session # 0 /\ pc \in {"returned", "failed"}

\* An exception left the body of the `async with` and the close succeeded
\* (after a body that ended normally a successful close lets the route
\* return).
BodyRaised == pc = "failed" /\ log[Len(log)].outcome = "ok"

\* C28 (as claimed): the session of a request is closed exactly once on
\* every path; when the body raised, a rollback was attempted before the
\* close; and only a commit makes work durable, never the close.
C28_SessionClosedOnceAfterRollback ==
    session # 0 =>
        /\ Cardinality(Calls("close")) = closes /\ closes <= 1
        /\ SessionOver =>
               /\ closes = 1
               /\ log[Len(log)].call = "close"
               /\ BodyRaised =>
                      /\ Len(log) >= 2
                      /\ log[Len(log) - 1].call = "rollback"
        /\ committed # << >> => Succeeded("commit") # {}

\* A preview returned successfully.
PreviewSucceeded == PreviewPath /\ pc = "done" /\ result.success

\* C29 (as claimed): in a successful preview result the rows shown are the
\* rows counted, up to the cap: len(preview_rows) = min(affected_rows, 100),
\* whatever other requests commit meanwhile.
C29_PreviewRowsMatchCount ==
    PreviewSucceeded => preview_rows = Min(affected_rows, PreviewCap)

\* C30 (as claimed): limit injection is idempotent.  For every text and
\* every limit, injecting the limit into a text that was already injected
\* changes nothing, whether the text ends in a line comment, holds a
\* compound operator or is not a SELECT statement.
C30_LimitInjectionIdempotent ==
    ValidatorReturned =>
        \A limit \in Limits :
            inject_limit_to_select(inject_limit_to_select(query, limit), limit)
                = inject_limit_to_select(query, limit)

====
